---- MODULE Spec2Model ----
(***************************************************************************)
(* A state-machine model of src/src/js/chromecast/ChromecastSessionManager *)
(* .js: the bridge between a Video.js player (the host) and the Google     *)
(* Cast context.                                                           *)
(*                                                                         *)
(* The program's own state is the three static fields (hasConnected,       *)
(* remotePlayer, remotePlayerController) and, per bridge, the listeners it *)
(* registered and the session requests it has in flight.  The cast context *)
(* (castState, its listener lists) and the host players (sources, time,    *)
(* paused, ready queue, disposed) are the two external collaborators the   *)
(* code talks to; they are modelled by what the code calls on them.  The   *)
(* cast context's session state and current session change with no notice *)
(* to the program, so getSessionState() and getCurrentSession() return any *)
(* value at the moment they are read.                                      *)
(*                                                                         *)
(* JavaScript runs one callback at a time, so every action below is one    *)
(* whole callback: a cast-context event dispatch (all listeners in         *)
(* registration order), a promise settlement, a ready callback, a call of  *)
(* the public API, or a user action on the host.                           *)
(*                                                                         *)
(* Handlers are operators from a world record w to a world record; w.calls *)
(* is the log of the calls the running callback has made so far, and       *)
(* w.threw is set when an exception is propagating.  lastOp and lastCalls  *)
(* keep the most recent callback and its call log, so that a property of   *)
(* "what the handler did" is a property of a state.  everLocal and         *)
(* ownSession are history variables (see their comments).                  *)
(***************************************************************************)
EXTENDS Integers, Sequences, FiniteSets, TLC

\* Bounds of the model.
MaxTime == 1        \* playback positions are 0..MaxTime
MaxReady == 1       \* ready callbacks queued on one host
MaxPending == 1     \* session requests one bridge has in flight

BridgeIds == {"b1", "b2"}

\* cast.framework.CastState
CastStates == {"NO_DEVICES_AVAILABLE", "NOT_CONNECTED", "CONNECTING", "CONNECTED"}

\* cast.framework.SessionState
SessionStates ==
    {"NO_SESSION", "SESSION_STARTING", "SESSION_STARTED", "SESSION_START_FAILED",
     "SESSION_ENDING", "SESSION_ENDED", "SESSION_RESUMED"}

\* chrome.cast.media.PlayerState
PlayerStates == {"IDLE", "PLAYING", "PAUSED"}

Times == 0..MaxTime

\* An absent JavaScript value (undefined or null) where a number, a boolean
\* or an object may stand: <<>> for absent, <<v>> for the value v.
Undefined == <<>>
Some(v) == <<v>>

\* What getMediaSession() returns: null, or a media status.  media says
\* whether the status carries a media item; one status without an item
\* stands for all of them.
MediaSessions ==
    {Undefined} \cup
    {Some([media |-> FALSE, currentTime |-> MaxTime, playerState |-> "PLAYING"])} \cup
    {Some([media |-> TRUE, currentTime |-> t, playerState |-> s]) :
        t \in Times, s \in PlayerStates}

\* What getCurrentSession() returns: null, or a session.
Sessions == {Undefined} \cup {Some([mediaSession |-> ms]) : ms \in MediaSessions}

SourceLists == {<<>>, <<"s1">>}

\* The values of window.chrome, window.chrome.cast and window.cast.
JsObjects == {"undefined", "object"}
Windows == [chrome : JsObjects, chromeCast : JsObjects, cast : JsObjects]
LoadedWindow == [chrome |-> "object", chromeCast |-> "object", cast |-> "object"]

VARIABLES
    window,                 \* the casting API's namespaces in the environment
    castState,              \* CastContext.getCastState()
    sessionListeners,       \* SESSION_STATE_CHANGED listeners, in order
    castListeners,          \* CAST_STATE_CHANGED listeners, in order
    hasConnected,           \* static ChromecastSessionManager.hasConnected
    remotePlayer,           \* static remotePlayer: 0 (unset) or a handle
    remotePlayerController, \* static controller: 0, or the handle it wraps
    handles,                \* RemotePlayer objects created so far
    bridges,                \* the bridges whose constructor returned
    disposeHooks,           \* 'dispose' hooks registered on each host
    players,                \* the host players
    pending,                \* session requests in flight, per bridge
    everLocal,              \* history: a request success or a resume ran
    ownSession,             \* history: the connection is this process's
    lastOp,                 \* the most recent callback
    lastCalls               \* the calls it made, in order

vars ==
    <<window, castState, sessionListeners, castListeners,
      hasConnected, remotePlayer, remotePlayerController, handles, bridges,
      disposeHooks, players, pending, everLocal, ownSession, lastOp, lastCalls>>

----------------------------------------------------------------------------
\* JavaScript values and operators

JsBool(b) == IF b THEN "true" ELSE "false"

Truthy(v) == v \notin {"undefined", "null", "false", ""}

\* a && b: a when a is falsy, else b
JsAnd(a, b) == IF Truthy(a) THEN b ELSE a

\* a || b on optional numbers: undefined and 0 are falsy
TruthyNum(x) == x # Undefined /\ x[1] # 0

\* a || b on optional booleans: undefined and false are falsy
TruthyBool(x) == x # Undefined /\ x[1]

----------------------------------------------------------------------------
\* The call log

Call(b, op, ev, t, p) == [b |-> b, op |-> op, ev |-> ev, t |-> t, p |-> p]

Log(w, e) == [w EXCEPT !.calls = Append(@, e)]

NoOp == [op |-> "init", b |-> "", st |-> "", sess |-> Undefined, cb |-> Undefined]

Op(op, b, st, sess, cb) == [op |-> op, b |-> b, st |-> st, sess |-> sess, cb |-> cb]

----------------------------------------------------------------------------
\* The static queries

isChromecastAPIAvailable(w) ==
    JsAnd(JsAnd(w.window.chrome, w.window.chromeCast), w.window.cast)

\* Mutant: the connection flag is not looked at.
isChromecastConnected_NoFlag(w) ==
    JsAnd(isChromecastAPIAvailable(w), JsBool(w.castState = "CONNECTED"))

isChromecastConnected(w) ==
    JsAnd(JsAnd(isChromecastAPIAvailable(w), JsBool(w.castState = "CONNECTED")),
          JsBool(w.hasConnected))

\* Mutant: CONNECTING is left out of the states with devices.
hasAvailableDevices_NoConnecting(w, state) ==
    LET castStateArg == IF Truthy(state) THEN state ELSE w.castState
    IN  \/ castStateArg = "NOT_CONNECTED"
        \/ castStateArg = "CONNECTED"

\* state is the castState argument, or "undefined" when the call passes none.
hasAvailableDevices(w, state) ==
    LET castStateArg == IF Truthy(state) THEN state ELSE w.castState
    IN  \/ castStateArg = "NOT_CONNECTED"
        \/ castStateArg = "CONNECTING"
        \/ castStateArg = "CONNECTED"

----------------------------------------------------------------------------
\* The host player, as the code uses it

currentSource(w, b) ==
    IF w.players[b].sources = <<>> THEN "undefined" ELSE w.players[b].sources[1]

PlayerTrigger(w, b, ev) == Log(w, Call(b, "trigger", ev, Undefined, Undefined))

\* player.src(sources): the host looks its tech up again and loads the
\* sources from the start, paused.
PlayerSrc(w, b, sources) ==
    LET w1 == [w EXCEPT !.players[b].sources = sources,
                        !.players[b].time = 0,
                        !.players[b].paused = TRUE]
    IN  Log(w1, Call(b, "src", "", Undefined, Undefined))

\* player.ready(fn): fn runs later, as a callback of its own.
PlayerReady(w, b, cb) ==
    Log([w EXCEPT !.players[b].readyQueue = Append(@, cb)],
        Call(b, "ready", "", Some(cb.currentTime), Some(cb.wasPlaying)))

PlayerPlay(w, b) ==
    Log([w EXCEPT !.players[b].paused = FALSE],
        Call(b, "play", "", Undefined, Undefined))

PlayerPause(w, b) ==
    Log([w EXCEPT !.players[b].paused = TRUE],
        Call(b, "pause", "", Undefined, Undefined))

PlayerSeek(w, b, t) ==
    Log([w EXCEPT !.players[b].time = t], Call(b, "currentTime", "", Some(t), Undefined))

----------------------------------------------------------------------------
\* The bridge's methods

\* The captured values, the re-applied sources, and the ready callback,
\* which closes over the captured values.
_reloadTech(w, b, sessionCurrentTime, sessionPlaying) ==
    LET player == w.players[b]
        currentTime == IF TruthyNum(sessionCurrentTime)
                       THEN sessionCurrentTime[1] ELSE player.time
        wasPlaying == IF TruthyBool(sessionPlaying) THEN TRUE ELSE ~player.paused
        sources == player.sources
        w1 == Log(w, Call(b, "_reloadTech", "", sessionCurrentTime, sessionPlaying))
        w2 == PlayerSrc(w1, b, sources)
    IN  PlayerReady(w2, b, [wasPlaying |-> wasPlaying, currentTime |-> currentTime])

\* The body of the function passed to player.ready.
ReadyCallbackBody(w, b, cb) ==
    LET w1 == IF cb.wasPlaying THEN PlayerPlay(w, b) ELSE PlayerPause(w, b)
    IN  PlayerSeek(w1, b, cb.currentTime)

\* Mutant: every player state but PAUSED counts as playing.
_reloadTechWithSources_NotPaused(w, b, mediaStatus) ==
    LET currentTime == mediaStatus.currentTime
        isPlaying == mediaStatus.playerState # "PAUSED"
    IN  _reloadTech(w, b, Some(currentTime), Some(isPlaying))

_reloadTechWithSources(w, b, mediaStatus) ==
    LET currentTime == mediaStatus.currentTime
        isPlaying == mediaStatus.playerState = "PLAYING"
    IN  _reloadTech(w, b, Some(currentTime), Some(isPlaying))

\* Mutant: a media status is enough, with or without a media item.
_onSessionResumed_AnyStatus(w, b, castSession) ==
    IF castSession = Undefined
    THEN [Log(w, Call(b, "throw", "TypeError", Undefined, Undefined))
            EXCEPT !.threw = TRUE, !.everLocal = TRUE]
    ELSE
        LET mediaStatus == castSession[1].mediaSession
            w1 == [w EXCEPT !.hasConnected = TRUE,
                            !.everLocal = TRUE, !.ownSession = TRUE]
            w2 == PlayerTrigger(w1, b, "chromecastConnected")
        IN  IF mediaStatus # Undefined
            THEN _reloadTechWithSources(w2, b, mediaStatus[1])
            ELSE _reloadTech(w2, b, Undefined, Undefined)

\* castSession is what getCurrentSession() returns.  Reading
\* getMediaSession() of no session throws a TypeError.
_onSessionResumed(w, b, castSession) ==
    IF castSession = Undefined
    THEN [Log(w, Call(b, "throw", "TypeError", Undefined, Undefined))
            EXCEPT !.threw = TRUE, !.everLocal = TRUE]
    ELSE
        LET mediaStatus == castSession[1].mediaSession
            w1 == [w EXCEPT !.hasConnected = TRUE,
                            !.everLocal = TRUE, !.ownSession = TRUE]
            w2 == PlayerTrigger(w1, b, "chromecastConnected")
        IN  IF mediaStatus # Undefined /\ mediaStatus[1].media
            THEN _reloadTechWithSources(w2, b, mediaStatus[1])
            ELSE _reloadTech(w2, b, Undefined, Undefined)

\* Mutant: the end of a session clears the connection flag.
_onSessionStateChange_ResetFlag(w, b, state, castSession) ==
    IF state = "SESSION_ENDED"
    THEN _reloadTech(PlayerTrigger([w EXCEPT !.hasConnected = FALSE], b,
                                   "chromecastDisconnected"),
                     b, Undefined, Undefined)
    ELSE IF state = "SESSION_RESUMED"
    THEN _onSessionResumed(w, b, castSession)
    ELSE w

\* Mutant: a started session is announced as a connection.
_onSessionStateChange_Started(w, b, state, castSession) ==
    IF state = "SESSION_ENDED"
    THEN _reloadTech(PlayerTrigger(w, b, "chromecastDisconnected"), b,
                     Undefined, Undefined)
    ELSE IF state = "SESSION_RESUMED"
    THEN _onSessionResumed(w, b, castSession)
    ELSE IF state = "SESSION_STARTED"
    THEN PlayerTrigger(w, b, "chromecastConnected")
    ELSE w

_onSessionStateChange(w, b, state, castSession) ==
    IF state = "SESSION_ENDED"
    THEN _reloadTech(PlayerTrigger(w, b, "chromecastDisconnected"), b,
                     Undefined, Undefined)
    ELSE IF state = "SESSION_RESUMED"
    THEN _onSessionResumed(w, b, castSession)
    ELSE w

_notifyPlayerOfDevicesAvailabilityChange(w, b, state) ==
    IF hasAvailableDevices(w, state)
    THEN PlayerTrigger(w, b, "chromecastDevicesAvailable")
    ELSE PlayerTrigger(w, b, "chromecastDevicesUnavailable")

\* Mutant: the cast state CONNECTED is taken for a connection of this page.
_onCastStateChange_Connected(w, b, state) ==
    LET w1 == _notifyPlayerOfDevicesAvailabilityChange(w, b, state)
    IN  IF state = "CONNECTED"
        THEN PlayerTrigger([w1 EXCEPT !.hasConnected = TRUE], b, "chromecastConnected")
        ELSE w1

_onCastStateChange(w, b, state) ==
    _notifyPlayerOfDevicesAvailabilityChange(w, b, state)

_addCastContextEventListeners(w, b) ==
    LET w1 == [w EXCEPT !.sessionListeners = Append(@, b),
                        !.castListeners = Append(@, b)]
        w2 == Log(w1, Call(b, "addEventListener", "SESSION_STATE_CHANGED",
                           Undefined, Undefined))
    IN  Log(w2, Call(b, "addEventListener", "CAST_STATE_CHANGED",
                     Undefined, Undefined))

\* Mutant: the cast context is cleared of every bridge's listeners.
_removeCastContextEventListeners_All(w, b) ==
    LET w1 == [w EXCEPT !.sessionListeners = <<>>, !.castListeners = <<>>]
        w2 == Log(w1, Call(b, "removeEventListener", "SESSION_STATE_CHANGED",
                           Undefined, Undefined))
    IN  Log(w2, Call(b, "removeEventListener", "CAST_STATE_CHANGED",
                     Undefined, Undefined))

\* Mutant: only the session-state listener is removed.
_removeCastContextEventListeners_SessionOnly(w, b) ==
    LET w1 == [w EXCEPT !.sessionListeners = SelectSeq(@, LAMBDA x : x # b)]
    IN  Log(w1, Call(b, "removeEventListener", "SESSION_STATE_CHANGED",
                     Undefined, Undefined))

\* removeEventListener of a listener that is not registered does nothing.
_removeCastContextEventListeners(w, b) ==
    LET w1 == [w EXCEPT !.sessionListeners = SelectSeq(@, LAMBDA x : x # b),
                        !.castListeners = SelectSeq(@, LAMBDA x : x # b)]
        w2 == Log(w1, Call(b, "removeEventListener", "SESSION_STATE_CHANGED",
                           Undefined, Undefined))
    IN  Log(w2, Call(b, "removeEventListener", "CAST_STATE_CHANGED",
                     Undefined, Undefined))

\* Mutant: every bridge creates a remote player and a controller of its own.
Constructor_OwnPlayer(w, b, state, castSession) ==
    LET w2 == _addCastContextEventListeners(w, b)
        w3 == Log([w2 EXCEPT !.disposeHooks[b] = TRUE],
                  Call(b, "on", "dispose", Undefined, Undefined))
        w4 == _notifyPlayerOfDevicesAvailabilityChange(w3, b, w3.castState)
        w5 == _onSessionStateChange(w4, b, state, castSession)
        w6 == [w5 EXCEPT !.remotePlayer = w5.handles + 1,
                         !.remotePlayerController = w5.handles + 1,
                         !.handles = w5.handles + 1]
    IN  IF w5.threw THEN w5 ELSE [w6 EXCEPT !.bridges = @ \cup {b}]

\* Mutant: the static fields are initialised again by every construction.
Constructor_ResetFlag(w, b, state, castSession) ==
    LET w2 == _addCastContextEventListeners([w EXCEPT !.hasConnected = FALSE], b)
        w3 == Log([w2 EXCEPT !.disposeHooks[b] = TRUE],
                  Call(b, "on", "dispose", Undefined, Undefined))
        w4 == _notifyPlayerOfDevicesAvailabilityChange(w3, b, w3.castState)
        w5 == _onSessionStateChange(w4, b, state, castSession)
        w6 == IF w5.remotePlayer # 0 THEN w5
              ELSE [w5 EXCEPT !.remotePlayer = w5.handles + 1,
                              !.handles = w5.handles + 1]
        w7 == IF w6.remotePlayerController # 0 THEN w6
              ELSE [w6 EXCEPT !.remotePlayerController = w6.remotePlayer]
    IN  IF w5.threw THEN w5 ELSE [w7 EXCEPT !.bridges = @ \cup {b}]

\* new ChromecastSessionManager(player).  An exception thrown by the session
\* listener leaves the constructor before the remote player is looked at,
\* and the caller gets no bridge: bridges holds the constructions that
\* returned one.
Constructor(w, b, state, castSession) ==
    LET w2 == _addCastContextEventListeners(w, b)
        w3 == Log([w2 EXCEPT !.disposeHooks[b] = TRUE],
                  Call(b, "on", "dispose", Undefined, Undefined))
        w4 == _notifyPlayerOfDevicesAvailabilityChange(w3, b, w3.castState)
        w5 == _onSessionStateChange(w4, b, state, castSession)
        w6 == IF w5.remotePlayer # 0 THEN w5
              ELSE [w5 EXCEPT !.remotePlayer = w5.handles + 1,
                              !.handles = w5.handles + 1]
        w7 == IF w6.remotePlayerController # 0 THEN w6
              ELSE [w6 EXCEPT !.remotePlayerController = w6.remotePlayer]
    IN  IF w5.threw THEN w5 ELSE [w7 EXCEPT !.bridges = @ \cup {b}]

\* Mutant: a request granted after the host was disposed is dropped.
onSessionSuccess_IfLive(w, b) ==
    IF w.players[b].disposed THEN w
    ELSE LET w1 == [w EXCEPT !.hasConnected = TRUE,
                             !.everLocal = TRUE, !.ownSession = TRUE]
         IN  _reloadTech(PlayerTrigger(w1, b, "chromecastConnected"), b,
                         Undefined, Undefined)

onSessionSuccess(w, b) ==
    LET w1 == [w EXCEPT !.hasConnected = TRUE,
                        !.everLocal = TRUE, !.ownSession = TRUE]
    IN  _reloadTech(PlayerTrigger(w1, b, "chromecastConnected"), b,
                    Undefined, Undefined)

\* Mutant: the rejection handler throws the rejection on.
onSessionFailure_Rethrow(w, b) ==
    [Log(w, Call(b, "throw", "Error", Undefined, Undefined)) EXCEPT !.threw = TRUE]

\* function() { /* noop */ }
onSessionFailure(w, b) == w

\* requestSession().then(onSessionSuccess, noop), settled with outcome.
\* The promise that then() returns is rejected, with nobody handling it,
\* only when the handler that ran threw.
SessionRequestSettled(w, b, outcome) ==
    LET w1 == [w EXCEPT !.pending[b] = @ - 1]
        w2 == IF outcome = "resolved" THEN onSessionSuccess(w1, b)
              ELSE onSessionFailure(w1, b)
    IN  IF w2.threw
        THEN Log(w2, Call(b, "unhandledrejection", "", Undefined, Undefined))
        ELSE w2

\* Mutant: the session is requested with or without a source.
openCastMenu_NoSourceCheck(w, b) ==
    Log([w EXCEPT !.pending[b] = @ + 1],
        Call(b, "requestSession", "", Undefined, Undefined))

\* Mutant: the connection flag is set when the request is made.
openCastMenu_Eager(w, b) ==
    IF ~Truthy(currentSource(w, b))
    THEN w
    ELSE Log([w EXCEPT !.pending[b] = @ + 1, !.hasConnected = TRUE],
             Call(b, "requestSession", "", Undefined, Undefined))

openCastMenu(w, b) ==
    IF ~Truthy(currentSource(w, b))
    THEN w
    ELSE Log([w EXCEPT !.pending[b] = @ + 1],
             Call(b, "requestSession", "", Undefined, Undefined))

getRemotePlayer(w, b) == w.remotePlayer

getRemotePlayerController(w, b) == w.remotePlayerController

----------------------------------------------------------------------------
\* The state as a world record, and back

World ==
    [window |-> window, castState |-> castState,
     sessionListeners |-> sessionListeners, castListeners |-> castListeners,
     hasConnected |-> hasConnected, remotePlayer |-> remotePlayer,
     remotePlayerController |-> remotePlayerController, handles |-> handles,
     bridges |-> bridges, disposeHooks |-> disposeHooks, players |-> players,
     pending |-> pending, everLocal |-> everLocal, ownSession |-> ownSession,
     calls |-> <<>>, threw |-> FALSE]

Commit(w, op) ==
    /\ window' = w.window
    /\ castState' = w.castState
    /\ sessionListeners' = w.sessionListeners
    /\ castListeners' = w.castListeners
    /\ hasConnected' = w.hasConnected
    /\ remotePlayer' = w.remotePlayer
    /\ remotePlayerController' = w.remotePlayerController
    /\ handles' = w.handles
    /\ bridges' = w.bridges
    /\ disposeHooks' = w.disposeHooks
    /\ players' = w.players
    /\ pending' = w.pending
    /\ everLocal' = w.everLocal
    /\ ownSession' = w.ownSession
    /\ lastOp' = op
    /\ lastCalls' = w.calls

\* The cast context calls the listeners of an event one after the other; an
\* exception a listener throws ends that listener only.
RECURSIVE DispatchSessionState(_, _, _, _)
DispatchSessionState(w, listeners, state, castSession) ==
    IF listeners = <<>> THEN w
    ELSE DispatchSessionState(
            [_onSessionStateChange(w, Head(listeners), state, castSession)
                EXCEPT !.threw = FALSE],
            Tail(listeners), state, castSession)

RECURSIVE DispatchCastState(_, _, _)
DispatchCastState(w, listeners, state) ==
    IF listeners = <<>> THEN w
    ELSE DispatchCastState(_onCastStateChange(w, Head(listeners), state),
                           Tail(listeners), state)

ApiLoaded == window = LoadedWindow

Range(seq) == {seq[i] : i \in DOMAIN seq}

HasRoom(b) == Len(players[b].readyQueue) < MaxReady

Reloads(state) == state \in {"SESSION_ENDED", "SESSION_RESUMED"}

\* getCurrentSession() is read only when a resume is handled.
SessionsRead(state) == IF state = "SESSION_RESUMED" THEN Sessions ELSE {Undefined}

InitialPlayer ==
    [sources |-> <<>>, time |-> 0, paused |-> TRUE,
     disposed |-> FALSE, readyQueue |-> <<>>]

Init ==
    /\ window \in Windows
    /\ castState = "NO_DEVICES_AVAILABLE"
    /\ sessionListeners = <<>>
    /\ castListeners = <<>>
    /\ hasConnected = FALSE
    /\ remotePlayer = 0
    /\ remotePlayerController = 0
    /\ handles = 0
    /\ bridges = {}
    /\ disposeHooks = [b \in BridgeIds |-> FALSE]
    /\ players = [b \in BridgeIds |-> InitialPlayer]
    /\ pending = [b \in BridgeIds |-> 0]
    /\ everLocal = FALSE
    /\ ownSession = FALSE
    /\ lastOp = NoOp
    /\ lastCalls = <<>>

----------------------------------------------------------------------------
\* The callbacks

\* The page finishes loading the casting API and configures the cast context.
LoadCastApi ==
    /\ ~ApiLoaded
    /\ Commit([World EXCEPT !.window = LoadedWindow],
              Op("LoadCastApi", "", "", Undefined, Undefined))

\* One bridge is constructed per host; state and castSession are what
\* getSessionState() and getCurrentSession() return to the constructor.
ConstructWith(b, state, castSession) ==
    /\ ApiLoaded
    /\ ~disposeHooks[b]
    /\ ~players[b].disposed
    /\ Reloads(state) => HasRoom(b)
    /\ Commit(Constructor(World, b, state, castSession),
              Op("Construct", b, state, castSession, Undefined))

Construct(b) ==
    \E state \in SessionStates :
       \E castSession \in SessionsRead(state) : ConstructWith(b, state, castSession)

\* The cast context changes its session state and fires
\* SESSION_STATE_CHANGED.
SessionStateChanged(state, castSession) ==
    /\ ApiLoaded
    /\ Reloads(state) => \A b \in Range(sessionListeners) : HasRoom(b)
    /\ Commit(DispatchSessionState(World, sessionListeners, state, castSession),
              Op("SessionStateChanged", "", state, castSession, Undefined))

\* The cast context changes its cast state and fires CAST_STATE_CHANGED.  A
\* connection this process made is over once the state leaves CONNECTED.
CastStateChanged(state) ==
    /\ ApiLoaded
    /\ state # castState
    /\ Commit(DispatchCastState(
                 [World EXCEPT !.castState = state,
                               !.ownSession = (ownSession /\ castState # "CONNECTED")],
                 castListeners, state),
              Op("CastStateChanged", "", state, Undefined, Undefined))

OpenCastMenu(b) ==
    /\ b \in bridges
    /\ ~players[b].disposed
    /\ Truthy(currentSource(World, b)) => pending[b] < MaxPending
    /\ Commit(openCastMenu(World, b),
              Op("openCastMenu", b, currentSource(World, b), Undefined, Undefined))

SessionRequestResolved(b) ==
    /\ pending[b] > 0
    /\ HasRoom(b)
    /\ Commit(SessionRequestSettled(World, b, "resolved"),
              Op("SessionRequestResolved", b, "", Undefined, Undefined))

SessionRequestRejected(b) ==
    /\ pending[b] > 0
    /\ Commit(SessionRequestSettled(World, b, "rejected"),
              Op("SessionRequestRejected", b, "", Undefined, Undefined))

\* The host is ready again and runs the oldest callback given to ready().
ReadyCallback(b) ==
    /\ players[b].readyQueue # <<>>
    /\ LET cb == Head(players[b].readyQueue)
           w == [World EXCEPT !.players[b].readyQueue = Tail(@)]
       IN  Commit(ReadyCallbackBody(w, b, cb),
                  Op("ReadyCallback", b, "", Undefined, Some(cb)))

\* The host player is disposed: its 'dispose' hooks run.
Dispose(b) ==
    /\ ~players[b].disposed
    /\ LET w == [World EXCEPT !.players[b].disposed = TRUE]
       IN  Commit(IF disposeHooks[b] THEN _removeCastContextEventListeners(w, b)
                  ELSE w,
                  Op("Dispose", b, "", Undefined, Undefined))

\* The user plays or pauses the host, seeks, or loads or unloads a source.
HostTogglePaused(b) ==
    /\ ~players[b].disposed
    /\ Commit([World EXCEPT !.players[b].paused = ~@],
              Op("Host", b, "", Undefined, Undefined))

HostSeek(b, t) ==
    /\ ~players[b].disposed
    /\ t # players[b].time
    /\ Commit([World EXCEPT !.players[b].time = t],
              Op("Host", b, "", Undefined, Undefined))

HostSetSources(b, sources) ==
    /\ ~players[b].disposed
    /\ sources # players[b].sources
    /\ Commit([PlayerSrc(World, b, sources) EXCEPT !.calls = <<>>],
              Op("Host", b, "", Undefined, Undefined))

NextOver(B) ==
    \/ LoadCastApi
    \/ \E b \in B : Construct(b)
    \/ \E state \in SessionStates :
          \E castSession \in SessionsRead(state) :
             SessionStateChanged(state, castSession)
    \/ \E state \in CastStates : CastStateChanged(state)
    \/ \E b \in B : OpenCastMenu(b)
    \/ \E b \in B : SessionRequestResolved(b)
    \/ \E b \in B : SessionRequestRejected(b)
    \/ \E b \in B : ReadyCallback(b)
    \/ \E b \in B : Dispose(b)
    \/ \E b \in B : HostTogglePaused(b)
    \/ \E b \in B, t \in Times : HostSeek(b, t)
    \/ \E b \in B, sources \in SourceLists : HostSetSources(b, sources)

\* One bridge on one host.
Next == NextOver({"b1"})

Spec == Init /\ [][Next]_vars

\* Two bridges on two hosts of a page that has loaded the casting API.  The
\* events are those the handlers tell apart (an ended, a resumed and one
\* other session state; a session with no media status, and one with a
\* playing item at the last position); every host has a source, and every
\* session request is granted.
MultiSessionStates == {"SESSION_STARTED", "SESSION_ENDED", "SESSION_RESUMED"}

MultiSessions ==
    {Undefined, Some([mediaSession |-> Undefined]),
     Some([mediaSession |->
              Some([media |-> TRUE, currentTime |-> MaxTime, playerState |-> "PLAYING"])])}

MultiSessionsRead(state) ==
    IF state = "SESSION_RESUMED" THEN MultiSessions ELSE {Undefined}

InitMulti ==
    /\ window = LoadedWindow
    /\ castState = "NO_DEVICES_AVAILABLE"
    /\ sessionListeners = <<>>
    /\ castListeners = <<>>
    /\ hasConnected = FALSE
    /\ remotePlayer = 0
    /\ remotePlayerController = 0
    /\ handles = 0
    /\ bridges = {}
    /\ disposeHooks = [b \in BridgeIds |-> FALSE]
    /\ players = [b \in BridgeIds |-> [InitialPlayer EXCEPT !.sources = <<"s1">>]]
    /\ pending = [b \in BridgeIds |-> 0]
    /\ everLocal = FALSE
    /\ ownSession = FALSE
    /\ lastOp = NoOp
    /\ lastCalls = <<>>

NextMulti ==
    \/ \E b \in BridgeIds, state \in MultiSessionStates :
          \E castSession \in MultiSessionsRead(state) :
             ConstructWith(b, state, castSession)
    \/ \E state \in MultiSessionStates :
          \E castSession \in MultiSessionsRead(state) :
             SessionStateChanged(state, castSession)
    \/ \E state \in CastStates : CastStateChanged(state)
    \/ \E b \in BridgeIds : OpenCastMenu(b)
    \/ \E b \in BridgeIds : SessionRequestResolved(b)
    \/ \E b \in BridgeIds : ReadyCallback(b)
    \/ \E b \in BridgeIds : Dispose(b)

SpecMulti == InitMulti /\ [][NextMulti]_vars

----------------------------------------------------------------------------
\* Properties

\* The calls the last callback made on behalf of bridge b.
CallsOf(b) == SelectSeq(lastCalls, LAMBDA e : e.b = b)

\* Bridge b has just handled the session state lastOp.st: as a listener of
\* the event, or in its constructor.
Handled(b) ==
    \/ lastOp.op = "SessionStateChanged" /\ b \in Range(sessionListeners)
    \/ lastOp.op = "Construct" /\ lastOp.b = b

\* The calls bridge b made while handling that session state: in a
\* constructor, those after the two addEventListener calls, the dispose hook
\* and the availability event.
HandlerCalls(b) ==
    IF lastOp.op = "Construct"
    THEN SubSeq(CallsOf(b), 5, Len(CallsOf(b)))
    ELSE CallsOf(b)

\* The session read by the last callback carries a media item.
HasMedia(castSession) ==
    /\ castSession # Undefined
    /\ castSession[1].mediaSession # Undefined
    /\ castSession[1].mediaSession[1].media

TriggerCall(b, ev) == Call(b, "trigger", ev, Undefined, Undefined)

ReloadCall(b, t, p) == Call(b, "_reloadTech", "", t, p)

AvailableStates == {"NOT_CONNECTED", "CONNECTING", "CONNECTED"}

ApiPresent ==
    window.chrome = "object" /\ window.chromeCast = "object" /\ window.cast = "object"

\* C1: isChromecastConnected() returns true exactly when the casting API is
\* present, the cast state is CONNECTED and hasConnected is true; while the
\* cast state is CONNECTED and neither a session-request success nor a
\* SESSION_RESUMED has been processed, it returns false.
C1_ConnectedIffApiStateFlag ==
    /\ isChromecastConnected(World) = "true"
          <=> (ApiPresent /\ castState = "CONNECTED" /\ hasConnected)
    /\ (castState = "CONNECTED" /\ ~everLocal)
          => isChromecastConnected(World) = "false"

C1_Witness ==
    /\ bridges # {}
    /\ castState = "CONNECTED"
    /\ ~everLocal
    /\ isChromecastConnected(World) = "false"

\* C2 (as claimed): isChromecastConnected() is true only while the
\* connection the cast state reports is one this process made, by a
\* successful session request or a SESSION_RESUMED event.
C2_ConnectedOnlyOwnSession == isChromecastConnected(World) = "true" => ownSession

\* C3 (as claimed): a resume whose session carries a media item leaves a
\* ready callback that holds the session's play state and time, and the
\* ready callback leaves the host playing exactly when it held "playing" and
\* at the time it held; so after the callback the host plays iff the session
\* was PLAYING, at the session's currentTime.
C3_ResumeRestoresSessionState ==
    [][/\ \A b \in BridgeIds :
             ( /\ lastOp'.op = "SessionStateChanged"
               /\ lastOp'.st = "SESSION_RESUMED"
               /\ HasMedia(lastOp'.sess)
               /\ b \in Range(sessionListeners) )
             => LET cb == players'[b].readyQueue[Len(players'[b].readyQueue)]
                    ms == lastOp'.sess[1].mediaSession[1]
                IN  /\ cb.wasPlaying = (ms.playerState = "PLAYING")
                    /\ cb.currentTime = ms.currentTime
       /\ \A b \in BridgeIds :
             (lastOp'.op = "ReadyCallback" /\ lastOp'.b = b)
             => /\ players'[b].paused = ~lastOp'.cb[1].wasPlaying
                /\ players'[b].time = lastOp'.cb[1].currentTime]_vars

\* C4: a bridge that handles SESSION_RESUMED for a session with a media item
\* sets hasConnected, triggers chromecastConnected and calls _reloadTech
\* with the media status's currentTime and (playerState = 'PLAYING').
C4_ResumeWithMedia ==
    \A b \in BridgeIds :
        (Handled(b) /\ lastOp.st = "SESSION_RESUMED" /\ HasMedia(lastOp.sess))
        => LET ms == lastOp.sess[1].mediaSession[1]
               cs == HandlerCalls(b)
           IN  /\ hasConnected
               /\ Len(cs) = 4
               /\ cs[1] = TriggerCall(b, "chromecastConnected")
               /\ cs[2] = ReloadCall(b, Some(ms.currentTime),
                                     Some(ms.playerState = "PLAYING"))

C4_Witness ==
    /\ lastOp.op = "SessionStateChanged"
    /\ lastOp.st = "SESSION_RESUMED"
    /\ sessionListeners # <<>>
    /\ HasMedia(lastOp.sess)
    /\ lastOp.sess[1].mediaSession[1].currentTime = MaxTime
    /\ lastOp.sess[1].mediaSession[1].playerState = "PLAYING"
    /\ \E i \in DOMAIN lastCalls :
          lastCalls[i] = ReloadCall("b1", Some(MaxTime), Some(TRUE))

\* C5: a SESSION_ENDED event makes every listening bridge trigger
\* chromecastDisconnected once and then reload the tech once with no
\* arguments, the callback holding the host's own time and play state;
\* hasConnected keeps its value.
C5_SessionEnded ==
    [][(lastOp'.op = "SessionStateChanged" /\ lastOp'.st = "SESSION_ENDED")
       => /\ hasConnected' = hasConnected
          /\ \A b \in Range(sessionListeners) :
                SelectSeq(lastCalls', LAMBDA e : e.b = b) =
                   << TriggerCall(b, "chromecastDisconnected"),
                      ReloadCall(b, Undefined, Undefined),
                      Call(b, "src", "", Undefined, Undefined),
                      Call(b, "ready", "", Some(players[b].time),
                           Some(~players[b].paused)) >>
          /\ \A i \in DOMAIN lastCalls' :
                lastCalls'[i].b \in Range(sessionListeners)]_vars

C5_Witness ==
    /\ lastOp.op = "SessionStateChanged"
    /\ lastOp.st = "SESSION_ENDED"
    /\ sessionListeners # <<>>
    /\ hasConnected
    /\ Len(lastCalls) = 4

\* C6: a bridge that handles SESSION_RESUMED for a session with no media
\* status, or with a status that has no media item, sets hasConnected,
\* triggers chromecastConnected and calls _reloadTech with no arguments.
C6_ResumeWithoutMedia ==
    \A b \in BridgeIds :
        ( /\ Handled(b)
          /\ lastOp.st = "SESSION_RESUMED"
          /\ lastOp.sess # Undefined
          /\ ~HasMedia(lastOp.sess) )
        => LET cs == HandlerCalls(b)
           IN  /\ hasConnected
               /\ Len(cs) = 4
               /\ cs[1] = TriggerCall(b, "chromecastConnected")
               /\ cs[2] = ReloadCall(b, Undefined, Undefined)

C6_Witness ==
    /\ lastOp.op = "SessionStateChanged"
    /\ lastOp.st = "SESSION_RESUMED"
    /\ sessionListeners # <<>>
    /\ lastOp.sess # Undefined
    /\ lastOp.sess[1].mediaSession # Undefined
    /\ ~lastOp.sess[1].mediaSession[1].media
    /\ hasConnected
    /\ Len(lastCalls) = 4

\* C7: openCastMenu() on a host without a current source changes nothing:
\* no call is made (no session request, no trigger, no host command), no
\* request is in flight afterwards, and hasConnected and the host are as
\* they were.
C7_OpenCastMenuWithoutSource ==
    [][(lastOp'.op = "openCastMenu" /\ ~Truthy(lastOp'.st))
       => /\ lastCalls' = <<>>
          /\ pending' = pending
          /\ hasConnected' = hasConnected
          /\ players' = players]_vars

C7_Witness ==
    /\ lastOp.op = "openCastMenu"
    /\ ~Truthy(lastOp.st)
    /\ players[lastOp.b].sources = <<>>

\* C8: openCastMenu() with a current source issues one session request and
\* nothing else; when the request resolves, and only then, hasConnected
\* becomes true, chromecastConnected is triggered once and the tech is
\* reloaded with no arguments.
C8_OpenCastMenuThenSuccess ==
    [][/\ (lastOp'.op = "openCastMenu" /\ Truthy(lastOp'.st))
          => /\ lastCalls' =
                   << Call(lastOp'.b, "requestSession", "", Undefined, Undefined) >>
             /\ pending'[lastOp'.b] = pending[lastOp'.b] + 1
             /\ hasConnected' = hasConnected
             /\ players' = players
       /\ lastOp'.op = "SessionRequestResolved"
          => /\ hasConnected'
             /\ pending'[lastOp'.b] = pending[lastOp'.b] - 1
             /\ lastCalls' =
                   << TriggerCall(lastOp'.b, "chromecastConnected"),
                      ReloadCall(lastOp'.b, Undefined, Undefined),
                      Call(lastOp'.b, "src", "", Undefined, Undefined),
                      Call(lastOp'.b, "ready", "", Some(players[lastOp'.b].time),
                           Some(~players[lastOp'.b].paused)) >>]_vars

C8_Witness ==
    /\ lastOp.op = "SessionRequestResolved"
    /\ hasConnected
    /\ Len(lastCalls) = 4

\* C9: a rejected session request is swallowed: the rejection handler makes
\* no call (no trigger, no reload, nothing thrown and no unhandled
\* rejection), and hasConnected and the host are as they were.
C9_RejectionSwallowed ==
    [][lastOp'.op = "SessionRequestRejected"
       => /\ lastCalls' = <<>>
          /\ hasConnected' = hasConnected
          /\ players' = players
          /\ pending'[lastOp'.b] = pending[lastOp'.b] - 1]_vars

C9_Witness ==
    /\ lastOp.op = "SessionRequestRejected"
    /\ lastCalls = <<>>

\* C10: hasAvailableDevices(state) is true for NOT_CONNECTED, CONNECTING and
\* CONNECTED and false for every other cast state; with no argument it is
\* that predicate of the cast context's current cast state.
C10_HasAvailableDevices ==
    /\ \A state \in CastStates :
          hasAvailableDevices(World, state) <=> state \in AvailableStates
    /\ hasAvailableDevices(World, "undefined") <=> castState \in AvailableStates

C10_Witness ==
    /\ lastOp.op = "CastStateChanged"
    /\ castState = "CONNECTING"
    /\ castListeners # <<>>
    /\ lastCalls = << TriggerCall("b1", "chromecastDevicesAvailable") >>

\* The availability event the cast state calls for.
AvailabilityEvent(state) ==
    IF state \in AvailableStates THEN "chromecastDevicesAvailable"
    ELSE "chromecastDevicesUnavailable"

\* C11: a cast-state change makes every bridge listening to it trigger
\* exactly one event, chromecastDevicesAvailable when the new state is
\* NOT_CONNECTED, CONNECTING or CONNECTED and chromecastDevicesUnavailable
\* otherwise, and nothing else: no other event, no tech reload, no call on
\* any other host, and hasConnected, the hosts, the session requests and
\* the remote player keep their values.
C11_CastStateChangeOnlyAvailability ==
    [][lastOp'.op = "CastStateChanged"
       => /\ lastCalls' = [i \in DOMAIN castListeners |->
                             TriggerCall(castListeners[i],
                                         AvailabilityEvent(lastOp'.st))]
          /\ hasConnected' = hasConnected
          /\ players' = players
          /\ pending' = pending
          /\ remotePlayer' = remotePlayer
          /\ remotePlayerController' = remotePlayerController]_vars

C11_Witness ==
    /\ lastOp.op = "CastStateChanged"
    /\ lastOp.st = "CONNECTED"
    /\ castListeners = <<"b1">>
    /\ lastCalls = <<TriggerCall("b1", "chromecastDevicesAvailable")>>
    /\ ~hasConnected

\* A host is disposed and the bridge on it had registered its dispose hook.
TornDown(b) == players[b].disposed /\ disposeHooks[b]

\* C12: once a host is disposed, its bridge is on neither listener list of
\* the cast context, and no session-state or cast-state event makes a call
\* on behalf of that bridge; removing the listeners again changes neither
\* list and throws nothing.
C12_DisposedBridgeIsSilent ==
    /\ [](\A b \in BridgeIds :
            TornDown(b)
            => /\ b \notin Range(sessionListeners) \cup Range(castListeners)
               /\ LET w == _removeCastContextEventListeners(World, b)
                  IN  /\ ~w.threw
                      /\ w.sessionListeners = sessionListeners
                      /\ w.castListeners = castListeners)
    /\ [][lastOp'.op \in {"SessionStateChanged", "CastStateChanged"}
          => \A i \in DOMAIN lastCalls' : ~TornDown(lastCalls'[i].b)]_vars

C12_Witness ==
    /\ TornDown("b1")
    /\ lastOp.op = "SessionStateChanged"
    /\ lastOp.st = "SESSION_ENDED"
    /\ lastCalls = <<>>

\* C13: the remote player and its controller are created at most once, and
\* whatever bridges have been constructed, getRemotePlayer() and
\* getRemotePlayerController() of each of them return that first handle.
C13_OneRemotePlayer ==
    /\ handles <= 1
    /\ bridges # {} => handles = 1
    /\ \A b \in bridges :
          /\ getRemotePlayer(World, b) = 1
          /\ getRemotePlayerController(World, b) = 1

C13_Witness ==
    /\ bridges = BridgeIds
    /\ lastOp.op = "Construct"
    /\ getRemotePlayer(World, "b1") = getRemotePlayer(World, "b2")
    /\ handles = 1

OpsOf(calls) == [i \in DOMAIN calls |-> calls[i].op]

ReloadOps == <<"_reloadTech", "src", "ready">>

\* C15: a construction first adds the two listeners and the dispose hook,
\* then triggers one availability event, the one for the current cast state,
\* and then handles the current session state as the event handler does:
\* SESSION_ENDED gives chromecastDisconnected and a reload, SESSION_RESUMED
\* sets hasConnected and gives chromecastConnected and a reload, any other
\* state gives nothing.
C15_ConstructionOrder ==
    lastOp.op = "Construct"
    => /\ Len(lastCalls) >= 4
       /\ SubSeq(lastCalls, 1, 4) =
             << Call(lastOp.b, "addEventListener", "SESSION_STATE_CHANGED",
                     Undefined, Undefined),
                Call(lastOp.b, "addEventListener", "CAST_STATE_CHANGED",
                     Undefined, Undefined),
                Call(lastOp.b, "on", "dispose", Undefined, Undefined),
                TriggerCall(lastOp.b, AvailabilityEvent(castState)) >>
       /\ disposeHooks[lastOp.b]
       /\ lastOp.b \in Range(sessionListeners) \cap Range(castListeners)
       /\ LET rest == SubSeq(lastCalls, 5, Len(lastCalls))
          IN  CASE lastOp.st = "SESSION_ENDED" ->
                      /\ rest[1] = TriggerCall(lastOp.b, "chromecastDisconnected")
                      /\ OpsOf(Tail(rest)) = ReloadOps
                [] lastOp.st = "SESSION_RESUMED" ->
                      /\ hasConnected
                      /\ rest # <<>>
                      /\ rest[1] = TriggerCall(lastOp.b, "chromecastConnected")
                      /\ OpsOf(Tail(rest)) = ReloadOps
                [] OTHER -> rest = <<>>

\* The value _reloadTech is to capture: the argument when one is given, the
\* host's own value otherwise.
GivenOr(arg, own) == IF arg # Undefined THEN arg ELSE Some(own)

\* C16: a tech reload captures the time and the play state, the arguments
\* when given and the host's own time and not-paused state otherwise, then
\* re-applies the sources once and hands the host a ready callback; play,
\* pause and seek are only called by that callback, which plays or pauses
\* by the captured play state and then seeks to the captured time.
C16_ReloadOrder ==
    [][/\ \A i \in DOMAIN lastCalls' :
             lastCalls'[i].op = "_reloadTech"
             => LET e == lastCalls'[i]
                IN  /\ i + 2 <= Len(lastCalls')
                    /\ lastCalls'[i + 1] = Call(e.b, "src", "", Undefined, Undefined)
                    /\ lastCalls'[i + 2] =
                          Call(e.b, "ready", "",
                               GivenOr(e.t, players[e.b].time),
                               GivenOr(e.p, ~players[e.b].paused))
       /\ \A i \in DOMAIN lastCalls' :
             lastCalls'[i].op = "src"
             => i > 1 /\ lastCalls'[i - 1].op = "_reloadTech"
       /\ lastOp'.op # "ReadyCallback"
          => \A i \in DOMAIN lastCalls' :
                lastCalls'[i].op \notin {"play", "pause", "currentTime"}
       /\ lastOp'.op = "ReadyCallback"
          => LET cb == lastOp'.cb[1]
             IN  lastCalls' =
                    << Call(lastOp'.b, IF cb.wasPlaying THEN "play" ELSE "pause",
                            "", Undefined, Undefined),
                       Call(lastOp'.b, "currentTime", "", Some(cb.currentTime),
                            Undefined) >>]_vars

\* C17: a session-state event that is neither SESSION_ENDED nor
\* SESSION_RESUMED makes no call and changes nothing: no event, no reload,
\* and hasConnected, the remote player, the hosts, the listeners and the
\* session requests keep their values.
C17_OtherSessionStatesIgnored ==
    [][(lastOp'.op = "SessionStateChanged"
        /\ lastOp'.st \notin {"SESSION_ENDED", "SESSION_RESUMED"})
       => /\ lastCalls' = <<>>
          /\ UNCHANGED <<hasConnected, remotePlayer, remotePlayerController,
                         handles, players, pending, sessionListeners,
                         castListeners, castState, bridges>>]_vars

C17_Witness ==
    /\ lastOp.op = "SessionStateChanged"
    /\ lastOp.st = "SESSION_STARTED"
    /\ sessionListeners = <<"b1">>
    /\ lastCalls = <<>>
    /\ ~hasConnected

\* C18: no callback throws an exception out of the program and no promise
\* of the program is rejected unhandled, a SESSION_RESUMED handled while
\* getCurrentSession() returns no session included.
C18_NothingThrown ==
    \A i \in DOMAIN lastCalls :
       lastCalls[i].op \notin {"throw", "unhandledrejection"}

\* C19: disposing a host releases the two listeners of its bridge and
\* nothing else, its session requests staying in flight; a request granted
\* after the disposal runs the success callback in full: hasConnected is
\* set, chromecastConnected is triggered on the disposed host and its
\* sources are re-applied.
C19_RequestOutlivesDisposal ==
    [][/\ lastOp'.op = "Dispose"
          => /\ pending' = pending
             /\ players' = [players EXCEPT ![lastOp'.b].disposed = TRUE]
             /\ UNCHANGED <<hasConnected, remotePlayer, remotePlayerController,
                            bridges, disposeHooks, castState>>
             /\ \A i \in DOMAIN lastCalls' :
                   lastCalls'[i].op = "removeEventListener"
       /\ (lastOp'.op = "SessionRequestResolved" /\ players[lastOp'.b].disposed)
          => /\ hasConnected'
             /\ pending' = [pending EXCEPT ![lastOp'.b] = @ - 1]
             /\ lastCalls' =
                   << TriggerCall(lastOp'.b, "chromecastConnected"),
                      ReloadCall(lastOp'.b, Undefined, Undefined),
                      Call(lastOp'.b, "src", "", Undefined, Undefined),
                      Call(lastOp'.b, "ready", "", Some(players[lastOp'.b].time),
                           Some(~players[lastOp'.b].paused)) >>
             /\ players'[lastOp'.b].sources = players[lastOp'.b].sources]_vars

C19_Witness ==
    /\ lastOp.op = "SessionRequestResolved"
    /\ players[lastOp.b].disposed
    /\ hasConnected
    /\ Len(players[lastOp.b].readyQueue) = 1
    /\ lastCalls[1] = TriggerCall(lastOp.b, "chromecastConnected")

\* The operations one run of the session-state handler calls.
HandlerOps(state, castSession) ==
    IF state = "SESSION_ENDED" THEN <<"trigger">> \o ReloadOps
    ELSE IF state = "SESSION_RESUMED"
    THEN IF castSession = Undefined THEN <<"throw">> ELSE <<"trigger">> \o ReloadOps
    ELSE <<>>

\* C20: with several bridges, each bridge is on each listener list at most
\* once; an event runs the handler of every listening bridge once, on that
\* bridge's host, and makes no call for any other bridge; disposing a host
\* removes the two listeners of its bridge and leaves the others registered.
C20_ListenersPerBridge ==
    [][/\ \A i, j \in DOMAIN sessionListeners' :
             sessionListeners'[i] = sessionListeners'[j] => i = j
       /\ \A i, j \in DOMAIN castListeners' :
             castListeners'[i] = castListeners'[j] => i = j
       /\ lastOp'.op = "SessionStateChanged"
          => /\ \A b \in Range(sessionListeners) :
                   OpsOf(SelectSeq(lastCalls', LAMBDA e : e.b = b)) =
                      HandlerOps(lastOp'.st, lastOp'.sess)
             /\ \A i \in DOMAIN lastCalls' :
                   lastCalls'[i].b \in Range(sessionListeners)
       /\ lastOp'.op = "CastStateChanged"
          => /\ \A b \in Range(castListeners) :
                   SelectSeq(lastCalls', LAMBDA e : e.b = b) =
                      <<TriggerCall(b, AvailabilityEvent(lastOp'.st))>>
             /\ \A i \in DOMAIN lastCalls' :
                   lastCalls'[i].b \in Range(castListeners)
       /\ lastOp'.op = "Dispose"
          => /\ sessionListeners' =
                   SelectSeq(sessionListeners, LAMBDA x : x # lastOp'.b)
             /\ castListeners' =
                   SelectSeq(castListeners, LAMBDA x : x # lastOp'.b)]_vars

C20_Witness ==
    /\ lastOp.op = "SessionStateChanged"
    /\ lastOp.st = "SESSION_ENDED"
    /\ Range(sessionListeners) = BridgeIds
    /\ Len(CallsOf("b1")) = 4
    /\ Len(CallsOf("b2")) = 4

====
